---- MODULE Spec2Model ----
(***************************************************************************)
(* GithubService (src/src/app/core/services/github.service.ts, the class   *)
(* at lines 155-403): two request-state signals, searchState and           *)
(* reposState, the HTTP requests the service has in flight, and the        *)
(* handlers that replace the signals when a response lands.                *)
(*                                                                         *)
(* Strings the code inspects (usernames, logins) are sequences of          *)
(* one-character strings, so that trim() is computed.  Messages are        *)
(* records [text, arg]; the accents of the Spanish texts are dropped.      *)
(*                                                                         *)
(* ThemeService (same file, the class at lines 405-584): the theme signal, *)
(* the effect the constructor registers on it, and what the effect         *)
(* touches: the body's marker classes, its data-theme attribute and the    *)
(* localStorage item.  The two services share no state; each has its own   *)
(* specification (Spec, SpecTheme) and the other's variables stand still.  *)
(*                                                                         *)
(* SearchComponent (src/src/app/features/search/search.component.ts, the   *)
(* class at lines 141-223): the query signal and the handlers onSearch and *)
(* onClear, the application's only callers of GithubService; SpecComponent *)
(* is the search service driven through them.                              *)
(***************************************************************************)
EXTENDS Integers, Sequences, FiniteSets, TLC

VARIABLES
    searchState,   \* signal<SearchState<GithubUser>>, line 174
    reposState,    \* signal<SearchState<GithubRepo[]>>, line 185
    pending,       \* requests issued through http.get and not yet answered
    sent,          \* number of requests http.get has been asked for, per kind
    calls,         \* history: caller invocations that reached http.get, and
                   \*          the number of the latest profile request
    resolved,      \* history: logins of the profile responses that succeeded
    directHandles, \* history: the handles (trimmed, the empty one included)
                   \*          a caller has invoked getUserRepos with
    lastLanded,    \* history: the outcome of the profile response that landed
                   \*          last since the caller last wrote the profile state
    lastCall,      \* history: the handler that ran last
    themeSignal,   \* signal<Theme>, line 442
    effectDirty,   \* the effect of lines 458-462 is scheduled and has not run
    storageItem,   \* localStorage item 'github-insight-theme', or NoItem
    bodyClasses,   \* document.body.classList
    dataTheme,     \* document.body's data-theme attribute, or NoItem
    themeEnv,      \* history: what the constructor found in the browser
    themeLog,      \* history: the handlers that ran, oldest first, each with
                   \*          the theme it left in the signal
    searchQuery    \* SearchComponent.searchQuery, signal<string>, line 150

githubVars == <<searchState, reposState, pending, sent, calls, resolved,
                directHandles, lastLanded, lastCall>>

themeVars == <<themeSignal, effectDirty, storageItem, bodyClasses, dataTheme,
               themeEnv, themeLog>>

vars == <<searchState, reposState, pending, sent, calls, resolved,
          directHandles, lastLanded, lastCall,
          themeSignal, effectDirty, storageItem, bodyClasses, dataTheme,
          themeEnv, themeLog, searchQuery>>

componentVars == <<searchQuery>>

(* ------------------------------ bounds -------------------------------- *)

\* invocations of searchUser and getUserRepos by a caller with a non-empty
\* handle; each search may add one chained repository request
MaxCalls == 2

\* invocations of toggleTheme and setTheme by a caller
MaxThemeCalls == 2

(* ------------------------------ inputs -------------------------------- *)

Whitespace == {" "}

\* what a caller may type
Usernames == { <<>>, <<" ">>, <<"a">>, <<" ", "a", " ">> }

\* user.login of a profile payload: the remote side chooses it
Logins == { <<>>, <<"a">>, <<"b">> }

\* HttpErrorResponse.status
Statuses == {404, 403, 0, 500}

\* number of public repositories the remote side holds for an account
Available == {0, 31}

(* --------------------------- values ----------------------------------- *)

\* null of SearchState.data and SearchState.error
NULL == [null |-> TRUE]

Msg(text, arg) == [text |-> text, arg |-> arg]

\* HttpErrorResponse.error: absent, a GithubError with an empty message, or
\* a GithubError with a message
Payloads == { NULL, [message |-> ""], [message |-> "Bad credentials"] }

\* String.prototype.trim
RECURSIVE TrimLeft(_)
TrimLeft(s) ==
    IF s # <<>> /\ Head(s) \in Whitespace THEN TrimLeft(Tail(s)) ELSE s

RECURSIVE TrimRight(_)
TrimRight(s) ==
    IF s # <<>> /\ s[Len(s)] \in Whitespace
    THEN TrimRight(SubSeq(s, 1, Len(s) - 1))
    ELSE s

Trim(s) == TrimRight(TrimLeft(s))

\* variant of IsBlank: the input is not trimmed before the test
IsBlankNoTrim(username) == Len(username) = 0

\* !username || username.trim().length === 0
IsBlank(username) == Len(username) = 0 \/ Len(Trim(username)) = 0

EmptyUsernameMsg == Msg("El nombre de usuario no puede estar vacio", <<>>)

\* the initial record of both signals
InitialState == [data |-> NULL, loading |-> FALSE, error |-> NULL]

\* the record set by the empty-input branch
ValidationState == [data |-> NULL, loading |-> FALSE, error |-> EmptyUsernameMsg]

\* variant of SearchLoading: the previous profile is kept while loading
SearchLoadingKeepsData == [data |-> searchState.data, loading |-> TRUE, error |-> NULL]

\* variant of SearchLoading: the loading flag is not raised
SearchLoadingNotSet == [data |-> NULL, loading |-> FALSE, error |-> NULL]

\* the record searchUser sets before the request
SearchLoading == [data |-> NULL, loading |-> TRUE, error |-> NULL]

\* the record getUserRepos sets before the request
ReposLoading == [data |-> NULL, loading |-> TRUE, error |-> NULL]

\* variant of Success: an empty list is taken for no data
SuccessEmptyAsNull(payload) ==
    [data |-> IF "count" \in DOMAIN payload /\ payload.count = 0 THEN NULL ELSE payload,
     loading |-> FALSE, error |-> NULL]

\* variant of Success: the loading flag is left raised
SuccessStillLoading(payload) == [data |-> payload, loading |-> TRUE, error |-> NULL]

\* the record the success handlers set
Success(payload) == [data |-> payload, loading |-> FALSE, error |-> NULL]

\* variant of SearchFailure: the previous profile is kept beside the error
SearchFailureKeepsData(msg) == [data |-> searchState.data, loading |-> FALSE, error |-> msg]

\* variant of SearchFailure: the loading flag is left raised
SearchFailureStillLoading(msg) == [data |-> NULL, loading |-> TRUE, error |-> msg]

\* the record searchUser's catchError sets
SearchFailure(msg) == [data |-> NULL, loading |-> FALSE, error |-> msg]

\* variant of ReposFailure: the previous list is kept beside the error
ReposFailureKeepsData(msg) == [data |-> reposState.data, loading |-> FALSE, error |-> msg]

\* the record getUserRepos' catchError sets
ReposFailure(msg) == [data |-> NULL, loading |-> FALSE, error |-> msg]

\* variant of PayloadMessage: githubError?.message ?? fallback, which keeps
\* an empty message
PayloadMessageNoFallback(payload, fallback) ==
    IF payload # NULL
    THEN Msg(payload.message, <<>>)
    ELSE Msg(fallback, <<>>)

\* githubError?.message || fallback
PayloadMessage(payload, fallback) ==
    IF payload # NULL /\ payload.message # ""
    THEN Msg(payload.message, <<>>)
    ELSE Msg(fallback, <<>>)

\* variant of SearchErrorMessage: no branch for 403, which falls through to
\* the payload message
SearchErrorMessageNo403(status, payload, username) ==
    IF status = 404 THEN Msg("Usuario \"?\" no encontrado", username)
    ELSE IF status = 0 THEN Msg("Error de conexion. Verifica tu internet", <<>>)
    ELSE PayloadMessage(payload, "Error al buscar usuario")

\* errorMessage of searchUser's catchError; username is the closure's
\* argument, not trimmed
SearchErrorMessage(status, payload, username) ==
    IF status = 404 THEN Msg("Usuario \"?\" no encontrado", username)
    ELSE IF status = 403 THEN Msg("Limite de solicitudes excedido. Intenta mas tarde", <<>>)
    ELSE IF status = 0 THEN Msg("Error de conexion. Verifica tu internet", <<>>)
    ELSE PayloadMessage(payload, "Error al buscar usuario")

\* variant of ReposErrorMessage: the texts of the profile search are reused
ReposErrorMessageAsSearch(status, payload) ==
    IF status = 404 THEN Msg("Usuario \"?\" no encontrado", <<>>)
    ELSE IF status = 403 THEN Msg("Limite de solicitudes excedido. Intenta mas tarde", <<>>)
    ELSE IF status = 0 THEN Msg("Error de conexion. Verifica tu internet", <<>>)
    ELSE Msg("Error al buscar usuario", <<>>)

\* errorMessage of getUserRepos' catchError
ReposErrorMessage(status, payload) ==
    IF status = 404 THEN Msg("Repositorios no encontrados", <<>>)
    ELSE IF status = 403 THEN Msg("Limite de solicitudes excedido al cargar repositorios", <<>>)
    ELSE IF status = 0 THEN Msg("Error de conexion al cargar repositorios", <<>>)
    ELSE PayloadMessage(payload, "Error al cargar repositorios")

(* --------------------------- requests --------------------------------- *)

NoParams == [sort |-> "", direction |-> "", per_page |-> 0]

\* variant of ReposParams: the page size is not the fixed 30
ReposParamsNoCap == [sort |-> "updated", direction |-> "desc", per_page |-> 100]

\* params of the repository request
ReposParams == [sort |-> "updated", direction |-> "desc", per_page |-> 30]

\* variant of UserUrl: the handle is sent as typed
UserUrlNoTrim(username) == username

\* the handle in `${apiUrl}/users/${username.trim()}`
UserUrl(username) == Trim(username)

\* the handle in `${apiUrl}/users/${username.trim()}/repos`
ReposUrl(username) == Trim(username)

\* the number the next request gets: requests are numbered as issued
NextId == sent.user + sent.repos + 1

\* http.get<GithubUser>(...) of searchUser
UserRequest(username) ==
    [id |-> NextId, kind |-> "user", username |-> username,
     handle |-> UserUrl(username), params |-> NoParams]

\* http.get<GithubRepo[]>(...) of getUserRepos
ReposRequest(username) ==
    [id |-> NextId, kind |-> "repos", username |-> username,
     handle |-> ReposUrl(username), params |-> ReposParams]

\* the list the remote side answers a repository request with: the account's
\* repositories, at most per_page of them
ReposPayload(req, avail) ==
    [forHandle |-> req.handle,
     count |-> IF avail < req.params.per_page THEN avail ELSE req.params.per_page]

Call(op, arg, id, ok) == [op |-> op, arg |-> arg, id |-> id, ok |-> ok]

(* ---------------------------- projections ----------------------------- *)

user == searchState.data
isLoading == searchState.loading
error == searchState.error
repos == reposState.data
isLoadingRepos == reposState.loading
reposError == reposState.error

(* ------------------------- ThemeService: values ----------------------- *)

\* type Theme = 'dark' | 'light'
Themes == {"dark", "light"}

DEFAULT_THEME == "dark"

\* getItem and getAttribute find nothing (null)
NoItem == "(none)"

\* what localStorage may hold under the key before the service exists
StoredValues == {NoItem, "dark", "light", "auto"}

\* the browser the constructor runs in: the stored item, whether getItem
\* returns or throws, whether window.matchMedia exists and what
\* (prefers-color-scheme: dark) matches
ThemeEnvs ==
    { e \in [stored : StoredValues, readOk : BOOLEAN,
             matchMedia : BOOLEAN, prefersDark : BOOLEAN] :
        e.prefersDark => e.matchMedia }

MarkerClasses == {"dark-theme", "light-theme"}

\* marker classes the body may carry before the service exists
InitialClasses == SUBSET MarkerClasses

ThemeEntry(op, arg, value, ok) ==
    [op |-> op, arg |-> arg, value |-> value, ok |-> ok]

\* loadThemeFromStorage, lines 497-507
LoadThemeFromStorage(env) ==
    IF env.readOk /\ (env.stored = "dark" \/ env.stored = "light")
    THEN env.stored
    ELSE NoItem

\* variant of GetInitialTheme: the ambient preference is asked first
GetInitialThemeAmbientFirst(env) ==
    LET storedTheme == LoadThemeFromStorage(env)
    IN  IF env.matchMedia
        THEN IF env.prefersDark THEN "dark" ELSE "light"
        ELSE IF storedTheme # NoItem THEN storedTheme ELSE DEFAULT_THEME

\* getInitialTheme, lines 475-489
GetInitialTheme(env) ==
    LET storedTheme == LoadThemeFromStorage(env)
    IN  IF storedTheme # NoItem
        THEN storedTheme
        ELSE IF env.matchMedia
             THEN IF env.prefersDark THEN "dark" ELSE "light"
             ELSE DEFAULT_THEME

\* variant of ApplyClasses: the other marker is not removed
ApplyClassesAddOnly(classes, theme) ==
    IF theme = "dark"
    THEN classes \cup {"dark-theme"}
    ELSE classes \cup {"light-theme"}

\* classList of applyThemeToDocument, lines 536-542
ApplyClasses(classes, theme) ==
    IF theme = "dark"
    THEN (classes \cup {"dark-theme"}) \ {"light-theme"}
    ELSE (classes \cup {"light-theme"}) \ {"dark-theme"}

\* variant of SaveThemeToStorage: nothing is written
SaveThemeToStorageNever(item, theme, writeOk) == item

\* saveThemeToStorage, lines 515-521: setItem stores the theme or throws
SaveThemeToStorage(item, theme, writeOk) ==
    IF writeOk THEN theme ELSE item

\* variant of ToggledTheme: the result is always 'light'
ToggledThemeAlwaysLight(currentTheme) == "light"

\* newTheme of toggleTheme, line 552
ToggledTheme(currentTheme) ==
    IF currentTheme = "dark" THEN "light" ELSE "dark"

\* the state the constructor leaves, lines 442 and 456-466: the signal holds
\* the initial theme, the effect is registered and has not run, and the
\* theme has been applied to the document once
ThemeConstructed(env, classes) ==
    LET initial == GetInitialTheme(env)
    IN  /\ themeSignal = initial
        /\ effectDirty = TRUE
        /\ storageItem = env.stored
        /\ bodyClasses = ApplyClasses(classes, initial)
        /\ dataTheme = initial
        /\ themeEnv = env
        /\ themeLog = << ThemeEntry("constructor", NoItem, initial, TRUE) >>

\* the environment of the theme service while the search service is explored
QuietEnv ==
    [stored |-> NoItem, readOk |-> TRUE,
     matchMedia |-> FALSE, prefersDark |-> FALSE]

(* ------------------------------ Init ---------------------------------- *)

GithubInit ==
    /\ searchState = InitialState
    /\ reposState = InitialState
    /\ pending = {}
    /\ sent = [user |-> 0, repos |-> 0]
    /\ calls = [search |-> 0, direct |-> 0, latest |-> 0]
    /\ resolved = {}
    /\ directHandles = {}
    /\ lastLanded = NULL
    /\ lastCall = Call("init", <<>>, 0, FALSE)

ComponentInit == searchQuery = <<>>

Init ==
    /\ GithubInit
    /\ ThemeConstructed(QuietEnv, {})
    /\ ComponentInit

ThemeInit ==
    /\ GithubInit
    /\ \E env \in ThemeEnvs, classes \in InitialClasses :
          ThemeConstructed(env, classes)
    /\ ComponentInit

(* ----------------------------- handlers ------------------------------- *)

\* getUserRepos(username), run with `inflight` the requests in flight when
\* it is entered: by a caller, or by the success handler of searchUser
GetUserRepos(username, inflight) ==
    IF IsBlank(username)
    THEN /\ reposState' = ValidationState
         /\ pending' = inflight
         /\ sent' = sent
    ELSE /\ reposState' = ReposLoading
         /\ pending' = inflight \cup {ReposRequest(username)}
         /\ sent' = [sent EXCEPT !.repos = @ + 1]

\* what searchUser(username) writes
SearchUserWrites(username) ==
    /\ IsBlank(username) \/ calls.search + calls.direct < MaxCalls
    /\ IF IsBlank(username)
       THEN /\ searchState' = ValidationState
            /\ UNCHANGED <<pending, sent, calls>>
            /\ lastCall' = Call("searchUser", username, 0, FALSE)
       ELSE /\ searchState' = SearchLoading
            /\ pending' = pending \cup {UserRequest(username)}
            /\ sent' = [sent EXCEPT !.user = @ + 1]
            /\ calls' = [calls EXCEPT !.search = @ + 1, !.latest = NextId]
            /\ lastCall' = Call("searchUser", username, NextId, FALSE)
    /\ lastLanded' = NULL
    /\ UNCHANGED <<resolved, directHandles>>

\* variant of SearchUser: a search also resets the repository state
SearchUserClearsRepos(username) ==
    /\ SearchUserWrites(username)
    /\ reposState' = InitialState

\* searchUser(username), up to subscribe()
SearchUser(username) ==
    /\ SearchUserWrites(username)
    /\ UNCHANGED reposState

\* variant of ChainedUsername: the handle that was searched
ChainedUsernameSearched(userData, username) == username

\* the argument of the chained getUserRepos call: the login of the payload
ChainedUsername(userData, username) == userData.login

\* variant of UserResponseOk: the response of a superseded search is dropped
UserResponseOkLatestOnly(req, login) ==
    /\ req \in pending
    /\ req.kind = "user"
    /\ IF req.id = calls.latest
       THEN /\ searchState' = Success([login |-> login])
            /\ GetUserRepos(login, pending \ {req})
            /\ resolved' = resolved \cup {Trim(login)}
       ELSE /\ pending' = pending \ {req}
            /\ UNCHANGED <<searchState, reposState, sent, resolved>>
    /\ lastLanded' = Success([login |-> login])
    /\ lastCall' = Call("userResponse", login, req.id, TRUE)
    /\ UNCHANGED <<calls, directHandles>>

\* variant of UserResponseOk: the profile is exposed and the repository
\* fetch is not started
UserResponseOkNoChain(req, login) ==
    /\ req \in pending
    /\ req.kind = "user"
    /\ searchState' = Success([login |-> login])
    /\ pending' = pending \ {req}
    /\ resolved' = resolved \cup {Trim(login)}
    /\ lastLanded' = Success([login |-> login])
    /\ lastCall' = Call("userResponse", login, req.id, TRUE)
    /\ UNCHANGED <<reposState, sent, calls, directHandles>>

\* tap of searchUser: the profile request req is answered with a profile
UserResponseOk(req, login) ==
    /\ req \in pending
    /\ req.kind = "user"
    /\ searchState' = Success([login |-> login])
    /\ GetUserRepos(ChainedUsername([login |-> login], req.username), pending \ {req})
    /\ resolved' = resolved \cup {Trim(login)}
    /\ lastLanded' = Success([login |-> login])
    /\ lastCall' = Call("userResponse", login, req.id, TRUE)
    /\ UNCHANGED <<calls, directHandles>>

\* catchError of searchUser: the profile request req fails
UserResponseError(req, status, payload) ==
    /\ req \in pending
    /\ req.kind = "user"
    /\ searchState' = SearchFailure(SearchErrorMessage(status, payload, req.username))
    /\ pending' = pending \ {req}
    /\ lastLanded' = SearchFailure(SearchErrorMessage(status, payload, req.username))
    /\ lastCall' = Call("userResponse", req.username, req.id, FALSE)
    /\ UNCHANGED <<reposState, sent, calls, resolved, directHandles>>

\* getUserRepos(username) called by a caller of the service
GetUserReposCall(username) ==
    /\ IsBlank(username) \/ calls.search + calls.direct < MaxCalls
    /\ GetUserRepos(username, pending)
    /\ calls' = IF IsBlank(username) THEN calls ELSE [calls EXCEPT !.direct = @ + 1]
    /\ directHandles' = directHandles \cup {Trim(username)}
    /\ lastCall' = Call("getUserRepos", username, 0, FALSE)
    /\ UNCHANGED <<searchState, resolved, lastLanded>>

\* tap of getUserRepos: the repository request req is answered with a list
ReposResponseOk(req, avail) ==
    /\ req \in pending
    /\ req.kind = "repos"
    /\ reposState' = Success(ReposPayload(req, avail))
    /\ pending' = pending \ {req}
    /\ lastCall' = Call("reposResponse", req.username, req.id, TRUE)
    /\ UNCHANGED <<searchState, sent, calls, resolved, directHandles, lastLanded>>

\* variant of ReposResponseError: the failure is written to the profile
\* state too
ReposResponseErrorHitsProfile(req, status, payload) ==
    /\ req \in pending
    /\ req.kind = "repos"
    /\ reposState' = ReposFailure(ReposErrorMessage(status, payload))
    /\ searchState' = SearchFailure(ReposErrorMessage(status, payload))
    /\ pending' = pending \ {req}
    /\ lastCall' = Call("reposResponse", req.username, req.id, FALSE)
    /\ UNCHANGED <<sent, calls, resolved, directHandles, lastLanded>>

\* catchError of getUserRepos: the repository request req fails
ReposResponseError(req, status, payload) ==
    /\ req \in pending
    /\ req.kind = "repos"
    /\ reposState' = ReposFailure(ReposErrorMessage(status, payload))
    /\ pending' = pending \ {req}
    /\ lastCall' = Call("reposResponse", req.username, req.id, FALSE)
    /\ UNCHANGED <<searchState, sent, calls, resolved, directHandles, lastLanded>>

\* variant of ClearSearch: only the profile state is reset (as at lines 134-140)
ClearSearchProfileOnly ==
    /\ searchState' = InitialState
    /\ lastLanded' = NULL
    /\ lastCall' = Call("clearSearch", <<>>, 0, FALSE)
    /\ UNCHANGED <<reposState, pending, sent, calls, resolved, directHandles>>

\* clearSearch()
ClearSearch ==
    /\ searchState' = InitialState
    /\ reposState' = InitialState
    /\ lastLanded' = NULL
    /\ lastCall' = Call("clearSearch", <<>>, 0, FALSE)
    /\ UNCHANGED <<pending, sent, calls, resolved, directHandles>>

(* ---------------------- SearchComponent: handlers --------------------- *)

\* the template writes what the user types into searchQuery
SetQuery(text) ==
    /\ searchQuery' = text
    /\ UNCHANGED <<githubVars, themeVars>>

\* variant of OnSearch: the query is handed to the service as typed, blank
\* or not
OnSearchNoGuard ==
    /\ SearchUser(searchQuery)
    /\ UNCHANGED <<searchQuery, themeVars>>

\* onSearch, lines 206-212
OnSearch ==
    LET query == Trim(searchQuery)
    IN  /\ IF Len(query) > 0
           THEN SearchUser(query)
           ELSE /\ lastCall' = Call("onSearch", searchQuery, 0, FALSE)
                /\ UNCHANGED <<searchState, reposState, pending, sent, calls,
                               resolved, directHandles, lastLanded>>
        /\ UNCHANGED <<searchQuery, themeVars>>

\* onClear, lines 219-222
OnClear ==
    /\ searchQuery' = <<>>
    /\ ClearSearch
    /\ UNCHANGED themeVars

(* ----------------------- ThemeService: handlers ----------------------- *)

\* toggleTheme and setTheme invocations so far
ThemeCalls ==
    Cardinality({ i \in DOMAIN themeLog :
                    themeLog[i].op \in {"toggleTheme", "setTheme"} })

\* variant of SignalSet: the effect is scheduled even when the value is the
\* one the signal already holds
SignalSetAlwaysNotifies(value) ==
    /\ themeSignal' = value
    /\ effectDirty' = TRUE

\* themeSignal.set, lines 553 and 563: a value equal to the current one
\* leaves the signal as it is and notifies nobody; another value replaces
\* it and schedules the effect
SignalSet(value) ==
    /\ themeSignal' = value
    /\ effectDirty' = (effectDirty \/ value # themeSignal)

\* toggleTheme, lines 550-554
ToggleTheme ==
    /\ ThemeCalls < MaxThemeCalls
    /\ SignalSet(ToggledTheme(themeSignal))
    /\ themeLog' = Append(themeLog,
                     ThemeEntry("toggleTheme", NoItem, themeSignal', TRUE))
    /\ UNCHANGED <<storageItem, bodyClasses, dataTheme, themeEnv>>
    /\ UNCHANGED <<githubVars, componentVars>>

\* setTheme, lines 562-564
SetTheme(theme) ==
    /\ ThemeCalls < MaxThemeCalls
    /\ SignalSet(theme)
    /\ themeLog' = Append(themeLog,
                     ThemeEntry("setTheme", theme, themeSignal', TRUE))
    /\ UNCHANGED <<storageItem, bodyClasses, dataTheme, themeEnv>>
    /\ UNCHANGED <<githubVars, componentVars>>

\* variant of EffectRun: a failed setItem is not caught; the theme falls
\* back to the default
EffectRunFailureResets(writeOk) ==
    /\ effectDirty
    /\ effectDirty' = FALSE
    /\ bodyClasses' = ApplyClasses(bodyClasses, themeSignal)
    /\ dataTheme' = themeSignal
    /\ storageItem' = SaveThemeToStorage(storageItem, themeSignal, writeOk)
    /\ themeSignal' = IF writeOk THEN themeSignal ELSE DEFAULT_THEME
    /\ themeLog' = Append(themeLog,
                     ThemeEntry("effect", themeSignal, themeSignal', writeOk))
    /\ UNCHANGED themeEnv
    /\ UNCHANGED <<githubVars, componentVars>>

\* one run of the effect, lines 458-462, after the code that scheduled it
\* has returned: applyThemeToDocument, then saveThemeToStorage
EffectRun(writeOk) ==
    /\ effectDirty
    /\ effectDirty' = FALSE
    /\ bodyClasses' = ApplyClasses(bodyClasses, themeSignal)
    /\ dataTheme' = themeSignal
    /\ storageItem' = SaveThemeToStorage(storageItem, themeSignal, writeOk)
    /\ themeLog' = Append(themeLog,
                     ThemeEntry("effect", themeSignal, themeSignal, writeOk))
    /\ UNCHANGED <<themeSignal, themeEnv>>
    /\ UNCHANGED <<githubVars, componentVars>>

(* ------------------------------ Next ---------------------------------- *)

Next ==
    \/ /\ \E username \in Usernames : SearchUser(username)
       /\ UNCHANGED <<themeVars, componentVars>>
    \/ /\ \E username \in Usernames : GetUserReposCall(username)
       /\ UNCHANGED <<themeVars, componentVars>>
    \/ /\ \E req \in pending, login \in Logins : UserResponseOk(req, login)
       /\ UNCHANGED <<themeVars, componentVars>>
    \/ /\ \E req \in pending, status \in Statuses, payload \in Payloads :
             UserResponseError(req, status, payload)
       /\ UNCHANGED <<themeVars, componentVars>>
    \/ /\ \E req \in pending, avail \in Available : ReposResponseOk(req, avail)
       /\ UNCHANGED <<themeVars, componentVars>>
    \/ /\ \E req \in pending, status \in Statuses, payload \in Payloads :
             ReposResponseError(req, status, payload)
       /\ UNCHANGED <<themeVars, componentVars>>
    \/ /\ ClearSearch
       /\ UNCHANGED <<themeVars, componentVars>>

ThemeNext ==
    \/ ToggleTheme
    \/ \E theme \in Themes : SetTheme(theme)
    \/ \E writeOk \in BOOLEAN : EffectRun(writeOk)

Spec == Init /\ [][Next]_vars

SpecTheme == ThemeInit /\ [][ThemeNext]_vars

\* the search service with SearchComponent as its caller
ComponentNext ==
    \/ \E text \in Usernames : SetQuery(text)
    \/ OnSearch
    \/ OnClear
    \/ /\ \E req \in pending, login \in Logins : UserResponseOk(req, login)
       /\ UNCHANGED <<themeVars, componentVars>>
    \/ /\ \E req \in pending, status \in Statuses, payload \in Payloads :
             UserResponseError(req, status, payload)
       /\ UNCHANGED <<themeVars, componentVars>>
    \/ /\ \E req \in pending, avail \in Available : ReposResponseOk(req, avail)
       /\ UNCHANGED <<themeVars, componentVars>>
    \/ /\ \E req \in pending, status \in Statuses, payload \in Payloads :
             ReposResponseError(req, status, payload)
       /\ UNCHANGED <<themeVars, componentVars>>

SpecComponent == Init /\ [][ComponentNext]_vars

\* a request in flight is answered: the observable of http.get emits or fails
ResponseLands ==
    \E req \in pending :
        \/ \E login \in Logins : UserResponseOk(req, login)
        \/ \E status \in Statuses, payload \in Payloads :
              UserResponseError(req, status, payload)
        \/ \E avail \in Available : ReposResponseOk(req, avail)
        \/ \E status \in Statuses, payload \in Payloads :
              ReposResponseError(req, status, payload)

\* the search service when every request issued is answered in the end; the
\* callers stop issuing requests after MaxCalls invocations
SpecAnswered == Init /\ [][Next]_vars /\ WF_vars(ResponseLands /\ UNCHANGED <<themeVars, componentVars>>)

(* ------------------------- claim vocabulary --------------------------- *)

\* empty or whitespace-only, stated without trim()
WhitespaceOnly(s) == \A i \in 1..Len(s) : s[i] \in Whitespace

Absent(x) == x = [null |-> TRUE]

Loading(s) == s.loading = TRUE
SettledWithData(s) == s.loading = FALSE /\ ~Absent(s.data) /\ Absent(s.error)
SettledWithError(s) == s.loading = FALSE /\ Absent(s.data) /\ ~Absent(s.error)
Idle(s) == s.loading = FALSE /\ Absent(s.data) /\ Absent(s.error)

Count(b) == IF b THEN 1 ELSE 0

States == {searchState, reposState}

\* t occurs in s as a contiguous part
Contains(s, t) ==
    \E i \in 0..(Len(s) - Len(t)) : SubSeq(s, i + 1, i + Len(t)) = t

\* the payload carries a message that is not empty
HasMessage(payload) == ~Absent(payload) /\ payload.message # ""

UserPending == {r \in pending : r.kind = "user"}
ReposPending == {r \in pending : r.kind = "repos"}

(* ------------------------------ claims -------------------------------- *)

\* C1: in every reachable state, for the profile state and the repository
\* state alike, loading = true implies that data and error are both absent.
C1_LoadingImpliesAbsent ==
    \A s \in States : s.loading = TRUE => (Absent(s.data) /\ Absent(s.error))

\* C1 witness: both states are loading at once, the profile state by a second
\* search issued after a first one had resolved.
C1_Witness ==
    /\ searchState.loading /\ reposState.loading
    /\ calls.search = 2 /\ resolved # {}

\* C2 as stated: each request state satisfies exactly one of loading,
\* settled-with-data, settled-with-error.  The state after construction
\* satisfies none.
C2_ExactlyOneOfThree ==
    \A s \in States :
        Count(Loading(s)) + Count(SettledWithData(s)) + Count(SettledWithError(s)) = 1

\* C2 amended: each request state satisfies exactly one of idle (the initial
\* record, absent/false/absent), loading, settled-with-data,
\* settled-with-error; after construction and after clearSearch it is idle.
C2_ExactlyOneOfFour ==
    /\ \A s \in States :
          Count(Idle(s)) + Count(Loading(s)) + Count(SettledWithData(s))
              + Count(SettledWithError(s)) = 1
    /\ lastCall.op \in {"init", "clearSearch"} => \A s \in States : Idle(s)

\* C2 witness: clearSearch has run after two searches, with a request still
\* in flight, and both states are idle.
C2_Witness ==
    /\ lastCall.op = "clearSearch"
    /\ sent.user = 2 /\ pending # {}
    /\ Idle(searchState) /\ Idle(reposState)

\* C3: searchUser with an empty or whitespace-only input issues no request,
\* and the state it leaves is {absent, false, validation error}, not loading.
C3_BlankSearchShortCircuits ==
    [][ (lastCall'.op = "searchUser" /\ WhitespaceOnly(lastCall'.arg)) =>
            /\ pending' = pending
            /\ sent' = sent
            /\ searchState' = [data |-> NULL, loading |-> FALSE,
                               error |-> EmptyUsernameMsg] ]_vars

\* C3 witness: searchUser(" ") has run while a request was in flight and
\* left the validation error.
C3_Witness ==
    /\ lastCall.op = "searchUser"
    /\ lastCall.arg = <<" ">>
    /\ searchState.error = EmptyUsernameMsg
    /\ ~searchState.loading
    /\ UserPending # {}

\* C4: searchUser with a non-empty handle, from any prior profile state,
\* leaves the profile state {absent, true, absent} in the step of the call,
\* with its own request and every earlier one still unanswered.
C4_SearchSetsLoading ==
    [][ (lastCall'.op = "searchUser" /\ ~WhitespaceOnly(lastCall'.arg)) =>
            /\ searchState' = [data |-> NULL, loading |-> TRUE, error |-> NULL]
            /\ pending \subseteq pending'
            /\ \E r \in pending' \ pending :
                  r.kind = "user" /\ r.id = lastCall'.id ]_vars

\* C4 witness: a search was started while an earlier profile request was
\* still in flight.
C4_Witness ==
    /\ lastCall.op = "searchUser"
    /\ searchState = [data |-> NULL, loading |-> TRUE, error |-> NULL]
    /\ \E r \in UserPending : r.id < lastCall.id

\* C5: a searchUser call with a non-empty handle issues exactly one profile
\* request, addressed to the trimmed handle; no other step issues one (no
\* retry); the requests issued number the non-empty searchUser calls.
C5_OneRequestPerSearch ==
    [][ LET new == {r \in pending' \ pending : r.kind = "user"}
        IN  /\ (lastCall'.op = "searchUser" /\ ~WhitespaceOnly(lastCall'.arg)) =>
                  /\ Cardinality(new) = 1
                  /\ \A r \in new : r.handle = Trim(lastCall'.arg)
                  /\ sent'.user = sent.user + 1
            /\ ~(lastCall'.op = "searchUser" /\ ~WhitespaceOnly(lastCall'.arg)) =>
                  /\ new = {}
                  /\ sent'.user = sent.user
            /\ sent'.user = calls'.search ]_vars

\* C5 witness: a search typed with surrounding blanks is in flight,
\* addressed to the trimmed handle.
C5_Witness ==
    /\ lastCall.op = "searchUser"
    /\ \E r \in UserPending :
          r.id = lastCall.id /\ r.username = <<" ", "a", " ">> /\ r.handle = <<"a">>

\* C6 as stated, for the profile responses that carry a non-empty login:
\* every such response issues exactly one repository request, for the handle
\* that was searched; a failed or short-circuited search issues none.
C6_OneFetchForSearchedHandle ==
    [][ LET new == {r \in pending' \ pending : r.kind = "repos"}
            landed == pending \ pending'
        IN  /\ (lastCall'.op = "userResponse" /\ lastCall'.ok
                  /\ ~WhitespaceOnly(lastCall'.arg)) =>
                  /\ Cardinality(new) = 1
                  /\ \A n \in new, r \in landed : n.handle = r.handle
            /\ (lastCall'.op = "searchUser"
                  \/ (lastCall'.op = "userResponse" /\ ~lastCall'.ok)) =>
                  new = {} ]_vars

\* C6 amended: a successful profile response whose login is non-empty after
\* trimming issues exactly one repository request, for that login (which
\* need not be the handle searched); one whose login is empty issues none
\* and leaves the repository validation error; a failed or short-circuited
\* search issues none.
C6_OneFetchForResolvedLogin ==
    [][ LET new == {r \in pending' \ pending : r.kind = "repos"}
        IN  /\ (lastCall'.op = "userResponse" /\ lastCall'.ok
                  /\ ~WhitespaceOnly(lastCall'.arg)) =>
                  /\ Cardinality(new) = 1
                  /\ \A n \in new : n.handle = Trim(lastCall'.arg)
                  /\ sent'.repos = sent.repos + 1
            /\ (lastCall'.op = "userResponse" /\ lastCall'.ok
                  /\ WhitespaceOnly(lastCall'.arg)) =>
                  /\ new = {}
                  /\ sent'.repos = sent.repos
                  /\ reposState'.error = EmptyUsernameMsg
            /\ (lastCall'.op = "searchUser"
                  \/ (lastCall'.op = "userResponse" /\ ~lastCall'.ok)) =>
                  /\ new = {}
                  /\ sent'.repos = sent.repos ]_vars

\* C6 witness: a profile response with login "b" has landed (no caller can
\* type that handle) and the chained repository request for "b" is in flight.
C6_Witness ==
    /\ lastCall.op = "userResponse" /\ lastCall.ok
    /\ lastCall.arg = <<"b">>
    /\ \E r \in ReposPending : r.handle = <<"b">> /\ r.id > lastCall.id

\* C7: no in-flight profile response is discarded; once every profile request
\* has landed, the profile state is the outcome of the response that landed
\* last, also when that is not the response of the search issued last.
C7_LastLandedWins ==
    /\ lastCall.op = "userResponse" => searchState = lastLanded
    /\ (UserPending = {} /\ ~Absent(lastLanded)) => searchState = lastLanded

\* C7 witness: of two overlapping searches the response of the first landed
\* last, and the profile state is its outcome.
C7_Witness ==
    /\ UserPending = {}
    /\ lastCall.op = "userResponse"
    /\ lastCall.id < calls.latest
    /\ searchState = lastLanded

\* C8 as stated: whenever the repository state holds data for handle h, a
\* profile response for h has landed successfully before.
C8_ReposOnlyAfterProfile ==
    ~Absent(reposState.data) => reposState.data.forHandle \in resolved

\* C8 amended: whenever the repository state holds data for handle h, either
\* a successful profile response with login h (trimmed) has landed before, or
\* a caller has invoked getUserRepos with h (trimmed) itself.
C8_ReposAfterProfileOrDirectCall ==
    ~Absent(reposState.data) =>
        reposState.data.forHandle \in (resolved \cup directHandles)

\* C8 witness: repository data is shown for a resolved login, and no caller
\* has invoked getUserRepos.
C8_Witness ==
    /\ ~Absent(reposState.data)
    /\ reposState.data.forHandle \in resolved
    /\ directHandles = {}

C10_ClearResetsBoth ==
    [][ lastCall'.op = "clearSearch" =>
            /\ searchState' = [data |-> NULL, loading |-> FALSE, error |-> NULL]
            /\ reposState' = [data |-> NULL, loading |-> FALSE, error |-> NULL]
            /\ Absent(user') /\ ~isLoading' /\ Absent(error')
            /\ Absent(repos') /\ ~isLoadingRepos' /\ Absent(reposError')
            /\ (lastCall.op = "clearSearch" =>
                  UNCHANGED <<searchState, reposState, pending, sent>>) ]_vars

\* C10 witness: clearSearch has run with requests in flight and after a
\* profile had resolved.
C10_Witness ==
    /\ lastCall.op = "clearSearch"
    /\ resolved # {} /\ pending # {}
    /\ searchState = InitialState /\ reposState = InitialState

\* C11: every failed response, of either kind and any status, leaves its
\* state {absent, false, non-empty message}, never loading; and from every
\* error state searchUser with a non-empty handle can still be called (while
\* fewer than MaxCalls calls were made) and sets loading again.
C11_FailuresSettleAndRetry ==
    /\ (lastCall.op = "userResponse" /\ ~lastCall.ok) =>
          /\ SettledWithError(searchState)
          /\ searchState.error.text # ""
    /\ (lastCall.op = "reposResponse" /\ ~lastCall.ok) =>
          /\ SettledWithError(reposState)
          /\ reposState.error.text # ""
    /\ \A s \in States : ~Absent(s.error) => (s.loading = FALSE /\ s.error.text # "")
    /\ (SettledWithError(searchState) /\ calls.search + calls.direct < MaxCalls) =>
          \A username \in Usernames :
              ~WhitespaceOnly(username) =>
                  ENABLED (SearchUser(username) /\ searchState'.loading = TRUE)

\* C11 witness: a profile request failed with a status outside 404/403/0
\* and an empty payload message; the fallback text is shown and a retry is
\* possible.
C11_Witness ==
    /\ lastCall.op = "userResponse" /\ ~lastCall.ok
    /\ searchState = [data |-> NULL, loading |-> FALSE,
                      error |-> Msg("Error al buscar usuario", <<>>)]
    /\ calls.search + calls.direct < MaxCalls
    /\ ENABLED SearchUser(<<"a">>)

\* C12: a failed profile response is classified by its status: 404 gives the
\* user-not-found message with the queried handle in it, 403 the rate-limit
\* message, 0 the connectivity message, any other status the message of the
\* payload if it has one, else the generic failure message.
C12_ProfileErrorClassified ==
    [][ \A req \in pending, status \in Statuses, payload \in Payloads :
          UserResponseError(req, status, payload) =>
            LET e == searchState'.error
            IN  /\ status = 404 =>
                      /\ e.text = "Usuario \"?\" no encontrado"
                      /\ e.arg = req.username
                      /\ Contains(e.arg, req.handle)
                /\ status = 403 =>
                      e = [text |-> "Limite de solicitudes excedido. Intenta mas tarde",
                           arg |-> <<>>]
                /\ status = 0 =>
                      e = [text |-> "Error de conexion. Verifica tu internet",
                           arg |-> <<>>]
                /\ (status \notin {404, 403, 0} /\ HasMessage(payload)) =>
                      e = [text |-> payload.message, arg |-> <<>>]
                /\ (status \notin {404, 403, 0} /\ ~HasMessage(payload)) =>
                      e = [text |-> "Error al buscar usuario", arg |-> <<>>] ]_vars

\* C12 witness: a search typed with surrounding blanks was answered 404 and
\* the message carries the handle as typed.
C12_Witness ==
    /\ lastCall.op = "userResponse" /\ ~lastCall.ok
    /\ searchState.error =
          [text |-> "Usuario \"?\" no encontrado", arg |-> <<" ", "a", " ">>]

\* C13: a failed repository response is classified by its status with the
\* repository texts: 404 repositories not found, 403 rate limit while
\* loading repositories, 0 connectivity while loading repositories, any
\* other status the message of the payload if it has one, else the generic
\* repository failure message; the state then is {absent, false, message}.
C13_ReposErrorClassified ==
    [][ \A req \in pending, status \in Statuses, payload \in Payloads :
          ReposResponseError(req, status, payload) =>
            LET e == reposState'.error
            IN  /\ Absent(reposState'.data) /\ reposState'.loading = FALSE
                /\ status = 404 =>
                      e = [text |-> "Repositorios no encontrados", arg |-> <<>>]
                /\ status = 403 =>
                      e = [text |-> "Limite de solicitudes excedido al cargar repositorios",
                           arg |-> <<>>]
                /\ status = 0 =>
                      e = [text |-> "Error de conexion al cargar repositorios",
                           arg |-> <<>>]
                /\ (status \notin {404, 403, 0} /\ HasMessage(payload)) =>
                      e = [text |-> payload.message, arg |-> <<>>]
                /\ (status \notin {404, 403, 0} /\ ~HasMessage(payload)) =>
                      e = [text |-> "Error al cargar repositorios", arg |-> <<>>] ]_vars

\* C13 witness: the chained repository request was answered 403 while the
\* profile stays shown.
C13_Witness ==
    /\ lastCall.op = "reposResponse" /\ ~lastCall.ok
    /\ SettledWithData(searchState)
    /\ reposState = [data |-> NULL, loading |-> FALSE,
                     error |-> [text |-> "Limite de solicitudes excedido al cargar repositorios",
                                arg |-> <<>>]]

\* C14: every repository request in flight asks for sort=updated,
\* direction=desc, per_page=30, and a repository list that is shown holds at
\* most 30 items.
C14_ReposCappedAt30 ==
    /\ \A r \in ReposPending :
          /\ r.params.sort = "updated"
          /\ r.params.direction = "desc"
          /\ r.params.per_page = 30
    /\ ~Absent(reposState.data) => reposState.data.count <= 30

\* C14 witness: an account with more than 30 repositories was fetched and
\* 30 are shown.
C14_Witness ==
    /\ lastCall.op = "reposResponse" /\ lastCall.ok
    /\ ~Absent(reposState.data)
    /\ reposState.data.count = 30

\* C15: after a successful repository response, an empty one included, the
\* repository state is {list, false, absent} with the list present, unlike
\* the absent data of the initial, loading and error states.
C15_EmptyListIsData ==
    /\ (lastCall.op = "reposResponse" /\ lastCall.ok) =>
          /\ ~Absent(reposState.data)
          /\ reposState.loading = FALSE
          /\ Absent(reposState.error)
    /\ (Idle(reposState) \/ Loading(reposState) \/ SettledWithError(reposState)) =>
          Absent(reposState.data)

\* C15 witness: the repository request for "a" was answered with an empty
\* list, which is shown as data.
C15_Witness ==
    /\ lastCall.op = "reposResponse" /\ lastCall.ok
    /\ reposState = [data |-> [forHandle |-> <<"a">>, count |-> 0],
                     loading |-> FALSE, error |-> NULL]

(* -------------------- ThemeService: claim vocabulary ------------------ *)

IsCallerEntry(entry) == entry.op # "effect"

\* the constructor and the toggleTheme and setTheme invocations, oldest first
CallerLog == SelectSeq(themeLog, IsCallerEntry)

LastEntry == themeLog[Len(themeLog)]

OtherTheme(theme) == CHOOSE t \in Themes : t # theme

MarkerOf(theme) == IF theme = "dark" THEN "dark-theme" ELSE "light-theme"

\* C16: toggleTheme leaves in the signal the theme opposite to the one it
\* found, and the second of two consecutive toggleTheme invocations leaves
\* the theme the first one found.
C16_ToggleFlipsAndRestores ==
    /\ themeSignal = LastEntry.value
    /\ \A i \in 2..Len(CallerLog) :
         CallerLog[i].op = "toggleTheme" =>
           /\ CallerLog[i].value = OtherTheme(CallerLog[i - 1].value)
           /\ (i > 2 /\ CallerLog[i - 1].op = "toggleTheme") =>
                 CallerLog[i].value = CallerLog[i - 2].value

C16_Witness ==
    /\ Len(CallerLog) = 3
    /\ CallerLog[2].op = "toggleTheme"
    /\ CallerLog[3].op = "toggleTheme"
    /\ CallerLog[1].value = "light"
    /\ themeSignal = "light"
    /\ LastEntry.op = "toggleTheme"

\* the handler that ran last is setTheme('light'), and so is the caller
\* invocation before it
SecondSetLight(log) ==
    LET callers == SelectSeq(log, IsCallerEntry)
        n == Len(callers)
    IN  /\ n >= 3
        /\ log[Len(log)].op = "setTheme"
        /\ log[Len(log)].arg = "light"
        /\ callers[n - 1].op = "setTheme"
        /\ callers[n - 1].arg = "light"

\* C17 as stated: when setTheme('light') has been called twice, the theme is
\* 'light' and the second call has triggered a write to storage: the effect
\* is scheduled when the call returns.
C17_SecondSetStillWrites ==
    SecondSetLight(themeLog) => (themeSignal = "light" /\ effectDirty)

\* C17, amended: the second of two setTheme('light') invocations changes
\* neither the theme nor the schedule of the effect nor the stored item: it
\* triggers no write; only a run still owed to an earlier change remains.
C17_SecondSetChangesNothing ==
    [][ SecondSetLight(themeLog') =>
          /\ themeSignal = "light"
          /\ themeSignal' = "light"
          /\ effectDirty' = effectDirty
          /\ storageItem' = storageItem ]_vars

C17_Witness ==
    /\ SecondSetLight(themeLog)
    /\ Len(themeLog) >= 3
    /\ themeLog[Len(themeLog) - 1].op = "effect"
    /\ themeLog[Len(themeLog) - 2].op = "setTheme"
    /\ themeSignal = "light"
    /\ ~effectDirty

\* the document shows the theme: the attribute and the one marker class
Presents(theme) ==
    /\ dataTheme = theme
    /\ bodyClasses \cap MarkerClasses = {MarkerOf(theme)}

\* the run of the effect that came last
LastEffect ==
    LET runs == { i \in DOMAIN themeLog : themeLog[i].op = "effect" }
    IN  themeLog[CHOOSE i \in runs : \A j \in runs : j <= i]

\* C18 as stated, for toggleTheme and setTheme: by the time the call returns
\* the presentation attribute and marker class equal the theme in the signal.
C18_MirroredOnReturn ==
    LastEntry.op \in {"toggleTheme", "setTheme"} => Presents(themeSignal)

\* C18, amended: the constructor leaves the document showing the initial
\* theme; after that the mirroring is the effect's, which runs after the
\* call that changed the signal has returned: whenever no run is owed, the
\* document shows the theme in the signal and, if the last run's write
\* succeeded, the stored item is that theme.
C18_MirroredOnceEffectHasRun ==
    /\ Len(themeLog) = 1 => Presents(themeSignal)
    /\ ~effectDirty =>
         /\ Presents(themeSignal)
         /\ LastEffect.ok => storageItem = themeSignal

C18_Witness ==
    /\ Len(themeLog) >= 3
    /\ LastEntry.op = "effect"
    /\ LastEntry.ok
    /\ themeLog[Len(themeLog) - 1].op = "toggleTheme"
    /\ themeSignal # CallerLog[1].value
    /\ themeEnv.stored # themeSignal
    /\ ~effectDirty
    /\ Presents(themeSignal)
    /\ storageItem = themeSignal

\* the theme the constructor put in the signal
InitialTheme == themeLog[1].value

\* C19: the initial theme is the stored value when storage can be read and
\* holds exactly 'dark' or 'light'; otherwise the ambient colour-scheme
\* preference when window.matchMedia exists; otherwise 'dark'.
C19_InitialThemeOrder ==
    /\ themeLog[1].op = "constructor"
    /\ (themeEnv.readOk /\ themeEnv.stored \in {"dark", "light"}) =>
          InitialTheme = themeEnv.stored
    /\ (~(themeEnv.readOk /\ themeEnv.stored \in {"dark", "light"})
          /\ themeEnv.matchMedia /\ themeEnv.prefersDark) =>
          InitialTheme = "dark"
    /\ (~(themeEnv.readOk /\ themeEnv.stored \in {"dark", "light"})
          /\ themeEnv.matchMedia /\ ~themeEnv.prefersDark) =>
          InitialTheme = "light"
    /\ (~(themeEnv.readOk /\ themeEnv.stored \in {"dark", "light"})
          /\ ~themeEnv.matchMedia) =>
          InitialTheme = "dark"

C19_Witness ==
    /\ Len(themeLog) = 1
    /\ themeEnv.readOk
    /\ themeEnv.stored = "light"
    /\ themeEnv.matchMedia
    /\ themeEnv.prefersDark
    /\ themeSignal = "light"

\* C20: after construction and after every run of the effect, the body
\* carries exactly one of the marker classes dark-theme and light-theme.
C20_ExactlyOneMarker ==
    Cardinality(bodyClasses \cap MarkerClasses) = 1

C20_Witness ==
    /\ LastEntry.op = "effect"
    /\ themeSignal # InitialTheme
    /\ bodyClasses = {MarkerOf(themeSignal)}
    /\ MarkerOf(InitialTheme) \notin bodyClasses

\* the theme after the first i caller entries, computed from the initial
\* theme and the invocations alone, as with a storage that never fails
RECURSIVE Replayed(_)
Replayed(i) ==
    IF i = 1 THEN InitialTheme
    ELSE IF CallerLog[i].op = "toggleTheme" THEN OtherTheme(Replayed(i - 1))
    ELSE CallerLog[i].arg

\* the initial theme of a browser with nothing stored
ThemeWithoutStorage ==
    IF themeEnv.matchMedia
    THEN IF themeEnv.prefersDark THEN "dark" ELSE "light"
    ELSE "dark"

\* C21: storage failures are swallowed.  When getItem throws, the constructor
\* completes with the theme of a browser that has nothing stored; whatever
\* writes fail, the theme in the signal is the one the toggleTheme and
\* setTheme invocations alone determine; a run of the effect whose write
\* failed still completes, and the next invocation is not blocked.
C21_StorageFailuresSwallowed ==
    /\ themeSignal = Replayed(Len(CallerLog))
    /\ ~themeEnv.readOk => InitialTheme = ThemeWithoutStorage
    /\ (LastEntry.op = "effect" /\ ~LastEntry.ok) =>
          /\ ~effectDirty
          /\ Presents(themeSignal)
    /\ ThemeCalls < MaxThemeCalls =>
          (ENABLED ToggleTheme /\ \A t \in Themes : ENABLED SetTheme(t))

C21_Witness ==
    /\ ~themeEnv.readOk
    /\ themeEnv.stored = "light"
    /\ InitialTheme = "dark"
    /\ Len(themeLog) = 4
    /\ themeLog[2].op = "toggleTheme"
    /\ themeLog[3].op = "effect" /\ ~themeLog[3].ok
    /\ themeLog[4].op = "toggleTheme"
    /\ themeSignal = "dark"
    /\ storageItem = "light"

(* ----------------------- claims, continued ---------------------------- *)

\* the handler that ran last is the success handler of a profile request
\* whose payload carries a login that is not blank
ProfileJustLanded ==
    /\ lastCall.op = "userResponse"
    /\ lastCall.ok
    /\ ~WhitespaceOnly(lastCall.arg)

C23_ReposTransitionsKeepProfile ==
    [][ lastCall'.op \in {"getUserRepos", "reposResponse"} =>
            searchState' = searchState ]_vars

C23_Witness ==
    /\ lastCall.op = "reposResponse"
    /\ ~lastCall.ok
    /\ SettledWithData(searchState)
    /\ SettledWithError(reposState)

Present(x) == ~Absent(x)

\* C24: in every reachable state neither request state has data and error
\* both present; and the state a response has just written, the profile
\* state for a profile response and the repository state for a repository
\* response, has exactly one of them and is not loading.
C24_DataAndErrorExclusive ==
    /\ \A s \in States : ~(Present(s.data) /\ Present(s.error))
    /\ lastCall.op = "userResponse" =>
          /\ ~searchState.loading
          /\ Count(Present(searchState.data)) + Count(Present(searchState.error)) = 1
    /\ lastCall.op = "reposResponse" =>
          /\ ~reposState.loading
          /\ Count(Present(reposState.data)) + Count(Present(reposState.error)) = 1

C24_Witness ==
    /\ lastCall.op = "reposResponse"
    /\ ~lastCall.ok
    /\ sent.repos = 2
    /\ ReposPending = {}
    /\ Present(reposState.error)
    /\ Absent(reposState.data)
    /\ Present(searchState.data)

\* C25: when every request issued is answered in the end and the callers
\* stop searching, the service reaches a state from which the profile
\* loading flag and the repository loading flag are both false for ever,
\* whatever searches and clears overlapped before.
C25_EventuallyNotLoading ==
    <>[](~searchState.loading /\ ~reposState.loading)

C25_Witness ==
    /\ calls.search = 2
    /\ sent.repos = 2
    /\ pending = {}
    /\ lastCall.op = "reposResponse"
    /\ ~searchState.loading
    /\ ~reposState.loading

\* C26 as stated: once clearSearch has run with a request in flight and no
\* search is made after it, both states are the initial record in every
\* later state.  lastCall names no search or direct call after the clear
\* exactly in the steps the premise admits: responses landing.
C26_ClearedStaysCleared ==
    [][ (lastCall.op = "clearSearch" /\ Idle(searchState) /\ Idle(reposState)
            /\ lastCall'.op \in {"userResponse", "reposResponse"}) =>
            (Idle(searchState') /\ Idle(reposState')) ]_vars

\* C27: whenever the profile loading flag is true a profile request is in
\* flight, and whenever the repository loading flag is true a repository
\* request is in flight.
C27_LoadingHasRequestInFlight ==
    /\ searchState.loading => UserPending # {}
    /\ reposState.loading => ReposPending # {}

C27_Witness ==
    /\ searchState.loading
    /\ reposState.loading
    /\ Cardinality(UserPending) = 1
    /\ Cardinality(ReposPending) = 1
    /\ lastCall.op = "searchUser"

\* C28 as stated: with only searches made, whenever no request is in flight
\* and both states are settled with data (the login not blank), the
\* repository list exposed is the one fetched for the login of the profile
\* exposed.
C28_ReposBelongToProfile ==
    (pending = {} /\ directHandles = {}
        /\ SettledWithData(searchState) /\ SettledWithData(reposState)
        /\ ~WhitespaceOnly(searchState.data.login)) =>
        reposState.data.forHandle = Trim(searchState.data.login)

\* t is s without its leading and trailing whitespace, stated without trim()
IsTrimOf(t, s) ==
    /\ t # <<>>
    /\ t[1] \notin Whitespace
    /\ t[Len(t)] \notin Whitespace
    /\ \E i \in 0..Len(s) :
         /\ i + Len(t) <= Len(s)
         /\ SubSeq(s, i + 1, i + Len(t)) = t
         /\ WhitespaceOnly(SubSeq(s, 1, i))
         /\ WhitespaceOnly(SubSeq(s, i + Len(t) + 1, Len(s)))

\* C29: onSearch with an empty or whitespace-only query leaves the profile
\* state, the repository state and the requests as they were (no validation
\* error is set); with any other query it has the service issue exactly one
\* profile request, for the query trimmed, and raise the profile loading
\* flag.
C29_OnSearchGuardsTheService ==
    [][ OnSearch =>
          IF WhitespaceOnly(searchQuery)
          THEN /\ searchState' = searchState
               /\ reposState' = reposState
               /\ pending' = pending
               /\ sent' = sent
          ELSE /\ sent'.user = sent.user + 1
               /\ sent'.repos = sent.repos
               /\ pending \subseteq pending'
               /\ \E r \in pending' \ pending :
                    /\ pending' \ pending = {r}
                    /\ r.kind = "user"
                    /\ IsTrimOf(r.username, searchQuery)
                    /\ r.handle = r.username
               /\ searchState'.loading
               /\ reposState' = reposState ]_vars

C29_Witness ==
    /\ lastCall.op = "onSearch"
    /\ lastCall.arg = <<" ">>
    /\ searchQuery = <<" ">>
    /\ SettledWithData(searchState)
    /\ SettledWithData(reposState)
    /\ Absent(searchState.error)

====
